---- MODULE Spec2Model ----
(***************************************************************************)
(* Model of the fboard (Fireboard) integration of gordlea/core:            *)
(*   homeassistant/components/fboard/__init__.py  (client registry)        *)
(*   homeassistant/components/fboard/sensor.py    (projection, setup,      *)
(*                                                 entity views)           *)
(* The DataUpdateCoordinator helper the sensor platform instantiates is    *)
(* not among the source files; its state machine follows spec.md 4.3/5.    *)
(*                                                                         *)
(* Python values are represented as follows:                               *)
(*   str that is formatted or searched  -> sequence of one-character       *)
(*                                         strings                         *)
(*   opaque str                         -> TLA+ string                     *)
(*   None / a value x                   -> << >> / << x >>                 *)
(*   dict (insertion ordered)           -> sequence of [k, v] entries      *)
(*                                         with pairwise distinct k        *)
(***************************************************************************)
EXTENDS Integers, Sequences, FiniteSets, TLC

VARIABLES
    \* --- projection of one API response (SpecProject) ---
    raw,          \* device_list_data under construction / as returned
    out,          \* << >> or << entities >>: result of the last projection
    keysPrev,     \* << >> or << key set >> of the projection before the last change
    phase,        \* "building" | "serving"
    \* --- one coordinator and its platform setup (Spec) ---
    coordState,   \* "Uninitialized" | "Refreshing" | "Ready" | "FailedAuth"
    data,         \* coordinator.data: the published snapshot (<< >> before the first)
    timerOn,      \* the periodic refresh timer is armed
    outstanding,  \* number of list_devices calls awaiting their response
    waiters,      \* callers waiting for the refresh in flight
    subscribers,  \* registered listeners (indices into views), registration order
    views,        \* fireboardEntities handed to async_add_entities
    setupResult,  \* progress / result of sensor.async_setup_entry
    event,        \* observable outcome of the last step
    \* --- registry of API clients (SpecRegistry) ---
    hass_data,    \* hass.data[DOMAIN]: << >> (unset) or << [entry_id -> client] >>
    loaded,       \* entries set up and not yet successfully unloaded
    pending,      \* entries whose sensor platform setup is scheduled, not yet run
    clientOf,     \* api_client obtained by each entry's sensor platform
    regEvent      \* outcome of the last registry operation

projVars == <<raw, out, keysPrev, phase>>
coordVars == <<coordState, data, timerOn, outstanding, waiters, subscribers,
               views, setupResult, event>>
regVars == <<hass_data, loaded, pending, clientOf, regEvent>>
vars == <<raw, out, keysPrev, phase, coordState, data, timerOn, outstanding,
          waiters, subscribers, views, setupResult, event, hass_data, loaded,
          pending, clientOf, regEvent>>

----------------------------------------------------------------------------
(* Bounds of the model *)

\* devices + channels + readings in one API response (SpecProject)
MaxInput == 4
\* devices in one API response of the coordinator model (Spec)
MaxRemoteDevices == 1
\* config entries (SpecRegistry)
NumEntries == 3

----------------------------------------------------------------------------
(* Strings *)

BATTERY == <<"b", "a", "t", "t", "e", "r", "y">>
UNDERSCORE == <<"_">>
SPACE == <<" ">>
BatteryWord == <<"B", "a", "t", "t", "e", "r", "y">>

DigitChar(d) ==
    CASE d = 0 -> "0" [] d = 1 -> "1" [] d = 2 -> "2" [] d = 3 -> "3"
      [] d = 4 -> "4" [] d = 5 -> "5" [] d = 6 -> "6" [] d = 7 -> "7"
      [] d = 8 -> "8" [] d = 9 -> "9"

RECURSIVE Digits(_)
Digits(n) == IF n < 10 THEN <<DigitChar(n)>>
             ELSE Digits(n \div 10) \o <<DigitChar(n % 10)>>

RECURSIVE Zeros(_)
Zeros(n) == IF n <= 0 THEN << >> ELSE <<"0">> \o Zeros(n - 1)

\* format(n, "02"): sign, then zeros up to a total width of 2, then the digits;
\* a longer number is not truncated
Format02(n) ==
    LET sign == IF n < 0 THEN <<"-">> ELSE << >>
        body == Digits(IF n < 0 THEN 0 - n ELSE n)
    IN  sign \o Zeros(2 - Len(sign) - Len(body)) \o body

\* Python's  sub in s  for strings
Contains(s, sub) ==
    \E i \in 1..(Len(s) - Len(sub) + 1) : SubSeq(s, i, i + Len(sub) - 1) = sub

----------------------------------------------------------------------------
(* Python values *)

None == << >>
Some(x) == <<x>>

\* insertion-ordered dict
DictKeys(d) == {d[i].k : i \in 1..Len(d)}
DictHas(d, key) == \E i \in 1..Len(d) : d[i].k = key
DictGet(d, key) == d[CHOOSE i \in 1..Len(d) : d[i].k = key].v
DictSet(d, key, val) ==
    IF DictHas(d, key)
    THEN [i \in 1..Len(d) |-> IF d[i].k = key THEN [k |-> key, v |-> val] ELSE d[i]]
    ELSE Append(d, [k |-> key, v |-> val])

----------------------------------------------------------------------------
(* Constants of the program *)

TEMP_FAHRENHEIT == "degF"
TEMP_CELSIUS == "degC"
PERCENTAGE == "%"
DEVICE_CLASS_BATTERY == "battery"
DEVICE_CLASS_TEMPERATURE == "temperature"
Manufacturer == "Fireboard Labs"

----------------------------------------------------------------------------
(* async_update_data: projection of device_list_data, sensor.py 66-110 *)

UnitOfMeasurement(device_data) ==
    IF device_data.degreetype = 2 THEN TEMP_FAHRENHEIT ELSE TEMP_CELSIUS

ParentDevice(device_data) ==
    [hardware_id |-> device_data.hardware_id,
     uuid |-> device_data.uuid,
     id |-> device_data.id,
     manufacturer |-> Manufacturer,
     model |-> device_data.model,
     name |-> device_data.title,
     sw_version |-> device_data.version,
     mac_id |-> device_data.device_log.macNIC,
     battery |-> device_data.last_battery_reading * 100,
     unit_of_measurement |-> UnitOfMeasurement(device_data)]

BatteryUniqueId(parent_device) == parent_device.hardware_id \o UNDERSCORE \o BATTERY

BatterySensor(parent_device) ==
    [parent_device |-> parent_device, unique_id |-> BatteryUniqueId(parent_device)]

\* variant: the last matching reading instead of the first
RECURSIVE ChannelTemp_Last(_, _)
ChannelTemp_Last(latest_temps, channel) ==
    IF latest_temps = << >> THEN None
    ELSE LET rest == ChannelTemp_Last(Tail(latest_temps), channel)
         IN  IF rest # None THEN rest
             ELSE IF Head(latest_temps).channel = channel
             THEN Some(Head(latest_temps).temp) ELSE None

\* next((x["temp"] for x in latest_temps if x["channel"] == channel), None)
RECURSIVE ChannelTemp(_, _)
ChannelTemp(latest_temps, channel) ==
    IF latest_temps = << >> THEN None
    ELSE IF Head(latest_temps).channel = channel THEN Some(Head(latest_temps).temp)
    ELSE ChannelTemp(Tail(latest_temps), channel)

ChannelUniqueId(parent_device, channel) ==
    parent_device.hardware_id \o UNDERSCORE \o Format02(channel)

SensorEntity(channel_data, parent_device, channel_temp) ==
    [channel |-> channel_data.channel,
     channel_label |-> channel_data.channel_label,
     parent_device |-> parent_device,
     state |-> channel_temp,
     unique_id |-> ChannelUniqueId(parent_device, channel_data.channel)]

\* variant: a channel without reading is left out of the snapshot
EmitChannel_SkipMissing(entities, parent_device, device_data, channel_data) ==
    LET channel_temp == ChannelTemp(device_data.latest_temps, channel_data.channel)
        sensor_entity == SensorEntity(channel_data, parent_device, channel_temp)
    IN  IF channel_temp = None THEN entities
        ELSE DictSet(entities, sensor_entity.unique_id, sensor_entity)

\* one iteration of the inner loop, lines 92-109
EmitChannel(entities, parent_device, device_data, channel_data) ==
    LET channel_temp == ChannelTemp(device_data.latest_temps, channel_data.channel)
        sensor_entity == SensorEntity(channel_data, parent_device, channel_temp)
    IN  DictSet(entities, sensor_entity.unique_id, sensor_entity)

RECURSIVE EmitChannels(_, _, _, _)
EmitChannels(entities, parent_device, device_data, channels) ==
    IF channels = << >> THEN entities
    ELSE EmitChannels(EmitChannel(entities, parent_device, device_data, Head(channels)),
                      parent_device, device_data, Tail(channels))

\* one iteration of the outer loop, lines 67-109
EmitDevice(entities, device_data) ==
    LET parent_device == ParentDevice(device_data)
        battery_sensor == BatterySensor(parent_device)
    IN  EmitChannels(DictSet(entities, battery_sensor.unique_id, battery_sensor),
                     parent_device, device_data, device_data.channels)

RECURSIVE EmitDevices(_, _)
EmitDevices(entities, device_list_data) ==
    IF device_list_data = << >> THEN entities
    ELSE EmitDevices(EmitDevice(entities, Head(device_list_data)), Tail(device_list_data))

project(device_list_data) == EmitDevices(<< >>, device_list_data)

----------------------------------------------------------------------------
(* API responses the projection is checked on (SpecProject) *)

FB1 == <<"F", "B", "1">>
FB2 == <<"F", "B", "2">>
HardwareIds == {FB1, FB2}
DegreeTypes == {1, 2}
BatteryReadings == {0, 1}
ChannelIndexes == {1, 100}
ReadingChannels == {1, 100}
Temps == {20, 30}
Title == <<"B", "B", "Q">>
ProbeLabel == <<"P", "r", "o", "b", "e">>

\* a device record of list_devices() with the fields the projection reads
RawDevice(hardware_id, degreetype, last_battery_reading, title, channels, latest_temps) ==
    [hardware_id |-> hardware_id,
     uuid |-> "uuid",
     id |-> "id",
     model |-> "FBX2",
     title |-> title,
     version |-> "1.0",
     device_log |-> [macNIC |-> "mac"],
     last_battery_reading |-> last_battery_reading,
     degreetype |-> degreetype,
     channels |-> channels,
     latest_temps |-> latest_temps]

ChannelData(channel) == [channel |-> channel, channel_label |-> ProbeLabel]
Reading(channel, temp) == [channel |-> channel, temp |-> temp]

RECURSIVE Weight(_)
Weight(device_list_data) ==
    IF device_list_data = << >> THEN 0
    ELSE 1 + Len(Head(device_list_data).channels)
           + Len(Head(device_list_data).latest_temps)
           + Weight(Tail(device_list_data))

RemoveAt(s, j) == SubSeq(s, 1, j - 1) \o SubSeq(s, j + 1, Len(s))

\* the key set of the snapshot published before a change of the readings
KeysBefore == IF out # None THEN Some(DictKeys(out[1])) ELSE keysPrev

InitProject ==
    /\ raw = << >>
    /\ out = None
    /\ keysPrev = None
    /\ phase = "building"

\* the remote account gains a device
AddDevice(hardware_id, degreetype, last_battery_reading) ==
    /\ phase = "building"
    /\ Weight(raw) < MaxInput
    /\ raw' = Append(raw, RawDevice(hardware_id, degreetype, last_battery_reading,
                                    Title, << >>, << >>))
    /\ UNCHANGED <<out, keysPrev, phase, coordVars, regVars>>

\* the last device gains a channel
AddChannel(channel) ==
    /\ phase = "building"
    /\ raw # << >>
    /\ Weight(raw) < MaxInput
    /\ raw' = [raw EXCEPT ![Len(raw)].channels = Append(@, ChannelData(channel))]
    /\ UNCHANGED <<out, keysPrev, phase, coordVars, regVars>>

\* device i reports one more reading
AddReading(i, channel, temp) ==
    /\ i \in 1..Len(raw)
    /\ Weight(raw) < MaxInput
    /\ raw' = [raw EXCEPT ![i].latest_temps = Append(@, Reading(channel, temp))]
    /\ out' = None
    /\ keysPrev' = KeysBefore
    /\ UNCHANGED <<phase, coordVars, regVars>>

\* a reading of device i is no longer reported
DropReading(i, j) ==
    /\ phase = "serving"
    /\ i \in 1..Len(raw)
    /\ j \in 1..Len(raw[i].latest_temps)
    /\ raw' = [raw EXCEPT ![i].latest_temps = RemoveAt(@, j)]
    /\ out' = None
    /\ keysPrev' = KeysBefore
    /\ UNCHANGED <<phase, coordVars, regVars>>

\* a successful refresh projects the response
Project ==
    /\ out = None
    /\ out' = Some(project(raw))
    /\ phase' = "serving"
    /\ UNCHANGED <<raw, keysPrev, coordVars, regVars>>

NextProject ==
    \/ \E h \in HardwareIds, d \in DegreeTypes, b \in BatteryReadings : AddDevice(h, d, b)
    \/ \E c \in ChannelIndexes : AddChannel(c)
    \/ \E i \in 1..MaxInput, c \in ReadingChannels, t \in Temps : AddReading(i, c, t)
    \/ \E i \in 1..MaxInput, j \in 1..MaxInput : DropReading(i, j)
    \/ Project

----------------------------------------------------------------------------
(* async_update_data: translation of the client's errors, sensor.py 61-65, 112-117 *)

\* variant: the authentication error is reported as an ordinary update failure
RaisedFor_AuthAsUpdateFailed(err) ==
    CASE err = "FireboardApiAuthError" -> "UpdateFailed"
      [] err = "FireboardApiError" -> "UpdateFailed"
      [] OTHER -> err

\* variant: every API error is reported as an authentication failure
RaisedFor_ErrorAsAuth(err) ==
    CASE err = "FireboardApiAuthError" -> "ConfigEntryAuthFailed"
      [] err = "FireboardApiError" -> "ConfigEntryAuthFailed"
      [] OTHER -> err

\* the exception async_update_data raises when list_devices() fails with err;
\* asyncio.TimeoutError of the 10 s timeout is not caught and propagates
RaisedFor(err) ==
    CASE err = "FireboardApiAuthError" -> "ConfigEntryAuthFailed"
      [] err = "FireboardApiError" -> "UpdateFailed"
      [] OTHER -> err

\* resp: outcome of  await api_client.list_devices()  under the timeout
async_update_data(resp) ==
    IF resp.kind = "ok"
    THEN [kind |-> "return", entities |-> project(resp.devices), exc |-> "none"]
    ELSE [kind |-> "raise", entities |-> << >>, exc |-> RaisedFor(resp.kind)]

----------------------------------------------------------------------------
(* Entity views, sensor.py 131-136 and 148-254 *)

\* lines 133-136: the class chosen for a key of coordinator.data
ViewFor(k) ==
    IF Contains(k, BATTERY)
    THEN [cls |-> "FireboardBattery", unique_id |-> k]
    ELSE [cls |-> "FireboardSensor", unique_id |-> k]

\* lines 131-136: fireboardEntities, in the order of coordinator.data.items()
CreateViews(entities) == [i \in 1..Len(entities) |-> ViewFor(entities[i].k)]

\* variant: the failure of the first refresh is swallowed and setup goes on
AfterFirstRefresh_Swallow(raised, coordinator_data) ==
    [result |-> "done",
     entities |-> IF coordinator_data = None THEN << >>
                  ELSE CreateViews(coordinator_data[1])]

\* lines 129-138: what follows the first refresh.  raised: the first refresh
\* raised to the caller, so the statements after the await are not executed
AfterFirstRefresh(raised, coordinator_data) ==
    IF raised
    THEN [result |-> "failed", entities |-> << >>]
    ELSE [result |-> "done", entities |-> CreateViews(coordinator_data[1])]

KeyError == [status |-> "KeyError", value |-> << >>]
Ok(x) == [status |-> "ok", value |-> x]

\* variant: a missing key silently falls back to the first record
raw_data_Fallback(coordinator_data, unique_id) ==
    IF DictHas(coordinator_data[1], unique_id)
    THEN Ok(DictGet(coordinator_data[1], unique_id))
    ELSE IF coordinator_data[1] # << >> THEN Ok(coordinator_data[1][1].v)
    ELSE KeyError

\* raw_data: self.coordinator.data[self._unique_id]
raw_data(coordinator_data, unique_id) ==
    IF DictHas(coordinator_data[1], unique_id)
    THEN Ok(DictGet(coordinator_data[1], unique_id))
    ELSE KeyError

DeviceInfo(parent_device) ==
    [manufacturer |-> parent_device.manufacturer,
     model |-> parent_device.model,
     name |-> parent_device.name,
     sw_version |-> parent_device.sw_version,
     identifiers |-> {<<"fireboard", parent_device.hardware_id>>},
     connections |-> {<<"mac", parent_device.mac_id>>}]

ViewProperties == {"name", "unit_of_measurement", "state", "device_info"}

\* class FireboardBattery, lines 165-199
FireboardBattery(coordinator_data, unique_id, prop) ==
    LET rd == raw_data(coordinator_data, unique_id)
    IN  CASE prop = "unit_of_measurement" -> Ok(PERCENTAGE)
          [] prop = "name" ->
                IF rd.status = "ok"
                THEN Ok(rd.value.parent_device.name \o SPACE \o BatteryWord) ELSE rd
          [] prop = "state" ->
                IF rd.status = "ok" THEN Ok(rd.value.parent_device.battery) ELSE rd
          [] prop = "device_info" ->
                IF rd.status = "ok" THEN Ok(DeviceInfo(rd.value.parent_device)) ELSE rd

\* class FireboardSensor, lines 214-254
FireboardSensor(coordinator_data, unique_id, prop) ==
    LET rd == raw_data(coordinator_data, unique_id)
    IN  CASE prop = "unit_of_measurement" ->
                IF rd.status = "ok"
                THEN Ok(rd.value.parent_device.unit_of_measurement) ELSE rd
          [] prop = "name" ->
                IF rd.status # "ok" THEN rd
                ELSE IF "channel_label" \notin DOMAIN rd.value THEN KeyError
                ELSE Ok(rd.value.parent_device.name \o SPACE \o rd.value.channel_label)
          [] prop = "state" ->
                IF rd.status # "ok" THEN rd
                ELSE IF "state" \notin DOMAIN rd.value THEN KeyError
                ELSE Ok(rd.value.state)
          [] prop = "device_info" ->
                IF rd.status = "ok" THEN Ok(DeviceInfo(rd.value.parent_device)) ELSE rd

ReadProperty(view, coordinator_data, prop) ==
    IF view.cls = "FireboardBattery"
    THEN FireboardBattery(coordinator_data, view.unique_id, prop)
    ELSE FireboardSensor(coordinator_data, view.unique_id, prop)

----------------------------------------------------------------------------
(* The coordinator (spec.md 4.3 and 5) *)

\* failure classification
Classify(exc) == IF exc = "ConfigEntryAuthFailed" THEN "auth" ELSE "transient"

\* state after a refresh with the given outcome
StateAfter(outcome) == IF outcome = "auth" THEN "FailedAuth" ELSE "Ready"

\* an authentication failure stops the timer, anything else leaves it alone
TimerAfter(outcome, timer) == IF outcome = "auth" THEN FALSE ELSE timer

\* the snapshot published after a refresh: replaced on success only
PublishedAfter(outcome, fresh, current) == IF outcome = "ok" THEN Some(fresh) ELSE current

\* variant: the listeners are called after every refresh
NotifiedAfter_Always(outcome, listeners) == listeners

\* the listeners called after a refresh: all of them, in registration order,
\* on success; none on failure
NotifiedAfter(outcome, listeners) == IF outcome = "ok" THEN listeners ELSE << >>

\* variant: every request starts its own fetch
IssuesFetch_Always(state) == TRUE

\* a refresh requested while one is in flight joins it instead of fetching
IssuesFetch(state) == state # "Refreshing"

----------------------------------------------------------------------------
(* Responses of the remote API in the coordinator model (Spec) *)

HB == <<"b", "a", "t", "t", "e", "r", "y", "9">>

RemoteDevices ==
    {RawDevice(FB1, 1, 1, Title, <<ChannelData(1)>>, <<Reading(1, 20)>>),
     RawDevice(FB1, 2, 0, Title, <<ChannelData(1)>>, << >>),
     RawDevice(HB, 1, 1, Title, <<ChannelData(1)>>, <<Reading(1, 30)>>)}

RECURSIVE SeqsUpTo(_, _)
SeqsUpTo(S, n) ==
    IF n = 0 THEN {<< >>}
    ELSE SeqsUpTo(S, n - 1) \cup
         {Append(q, x) : q \in {r \in SeqsUpTo(S, n - 1) : Len(r) = n - 1}, x \in S}

RemoteResponses == SeqsUpTo(RemoteDevices, MaxRemoteDevices)

ApiOutcomes ==
    {[kind |-> "ok", devices |-> r] : r \in RemoteResponses} \cup
    {[kind |-> e, devices |-> << >>] :
        e \in {"FireboardApiAuthError", "FireboardApiError", "TimeoutError"}}

----------------------------------------------------------------------------
(* Operations on one coordinator and its sensor platform (Spec) *)

NoEvent == [op |-> "none"]

InitCoord ==
    /\ coordState = "Uninitialized"
    /\ data = None
    /\ timerOn = FALSE
    /\ outstanding = 0
    /\ waiters = {}
    /\ subscribers = << >>
    /\ views = << >>
    /\ setupResult = "none"
    /\ event = NoEvent

\* sensor.async_setup_entry up to the await of line 129: the coordinator is
\* built with the 20 s interval and its first refresh starts
SetupEntry ==
    /\ setupResult = "none"
    /\ coordState = "Uninitialized"
    /\ coordState' = "Refreshing"
    /\ outstanding' = outstanding + 1
    /\ waiters' = {"start"}
    /\ timerOn' = TRUE
    /\ setupResult' = "first_refresh"
    /\ event' = [op |-> "setup"]
    /\ UNCHANGED <<data, subscribers, views, projVars, regVars>>

\* a refresh is requested by the timer or by refreshNow()
RequestRefresh(caller) ==
    /\ coordState \in {"Ready", "Refreshing"}
    /\ setupResult = "done"
    /\ IF IssuesFetch(coordState)
       THEN /\ coordState' = "Refreshing"
            /\ outstanding' = outstanding + 1
            /\ waiters' = {caller}
       ELSE /\ waiters' = waiters \cup {caller}
            /\ UNCHANGED <<coordState, outstanding>>
    /\ event' = [op |-> "request", caller |-> caller,
                 joined |-> (coordState = "Refreshing"),
                 fetchIssued |-> (outstanding' > outstanding), notified |-> << >>]
    /\ UNCHANGED <<data, timerOn, subscribers, views, setupResult, projVars, regVars>>

\* the interval elapses; the coordinator polls only while it has listeners
\* (sensor.py 125)
TimerTick ==
    /\ timerOn
    /\ subscribers # << >>
    /\ RequestRefresh("timer")

RefreshNow == RequestRefresh("refreshNow")

\* the fetch in flight ends with resp; the refresh runs to completion
RefreshCompletes(resp) ==
    /\ coordState = "Refreshing"
    /\ outstanding > 0
    /\ LET r == async_update_data(resp)
           outcome == IF r.kind = "return" THEN "ok" ELSE Classify(r.exc)
           published == PublishedAfter(outcome, r.entities, data)
           setup == AfterFirstRefresh(outcome # "ok", published)
       IN  /\ outstanding' = outstanding - 1
           /\ data' = published
           /\ coordState' = StateAfter(outcome)
           /\ timerOn' = TimerAfter(outcome, timerOn)
           /\ waiters' = {}
           /\ IF "start" \in waiters
              THEN /\ setupResult' = setup.result
                   /\ views' = setup.entities
              ELSE UNCHANGED <<setupResult, views>>
           /\ event' = [op |-> "refresh", api |-> resp.kind, outcome |-> outcome,
                        raised |-> r.exc, kept |-> (published = data),
                        waiting |-> waiters,
                        delivered |-> [w \in waiters |-> outcome],
                        notified |-> NotifiedAfter(outcome, subscribers),
                        saw |-> published]
    /\ UNCHANGED <<subscribers, projVars, regVars>>

\* the host adds entity v: it registers its listener with the coordinator
Subscribe(v) ==
    /\ setupResult = "done"
    /\ v \in 1..Len(views)
    /\ \A i \in 1..Len(subscribers) : subscribers[i] # v
    /\ subscribers' = Append(subscribers, v)
    /\ event' = [op |-> "subscribe"]
    /\ UNCHANGED <<coordState, data, timerOn, outstanding, waiters, views, setupResult,
                   projVars, regVars>>

\* entity v is removed from the host
Unsubscribe(v) ==
    /\ \E i \in 1..Len(subscribers) : subscribers[i] = v
    /\ subscribers' = SelectSeq(subscribers, LAMBDA x : x # v)
    /\ event' = [op |-> "unsubscribe"]
    /\ UNCHANGED <<coordState, data, timerOn, outstanding, waiters, views, setupResult,
                   projVars, regVars>>

\* the host reads a property of entity v
ViewRead(v, prop) ==
    /\ setupResult = "done"
    /\ v \in 1..Len(views)
    /\ event' = [op |-> "read", view |-> v, prop |-> prop,
                 result |-> ReadProperty(views[v], data, prop)]
    /\ UNCHANGED <<coordState, data, timerOn, outstanding, waiters, subscribers,
                   views, setupResult, projVars, regVars>>

\* external re-authentication: the entry is set up anew with a new coordinator
Reauthenticate ==
    /\ coordState = "FailedAuth"
    /\ coordState' = "Uninitialized"
    /\ data' = None
    /\ timerOn' = FALSE
    /\ outstanding' = 0
    /\ waiters' = {}
    /\ subscribers' = << >>
    /\ views' = << >>
    /\ setupResult' = "none"
    /\ event' = [op |-> "reauth"]
    /\ UNCHANGED <<projVars, regVars>>

MaxViews == 2 * MaxRemoteDevices

\* the coordinator with its listeners and timer
NextCoord ==
    \/ SetupEntry
    \/ TimerTick
    \/ RefreshNow
    \/ \E resp \in ApiOutcomes : RefreshCompletes(resp)
    \/ \E v \in 1..MaxViews : Subscribe(v)
    \/ \E v \in 1..MaxViews : Unsubscribe(v)
    \/ Reauthenticate

\* the coordinator with the entity views read by the host
NextViews ==
    \/ SetupEntry
    \/ RefreshNow
    \/ \E resp \in ApiOutcomes : RefreshCompletes(resp)
    \/ \E v \in 1..MaxViews, prop \in ViewProperties : ViewRead(v, prop)
    \/ Reauthenticate

----------------------------------------------------------------------------
(* Registry of API clients, fboard/__init__.py and sensor.py 53 (SpecRegistry) *)

Entries == 1..NumEntries

\* entry.data of a config entry
EntryData(e) == [email |-> <<"user", e>>, password |-> <<"secret", e>>]

\* FireboardAPI(email, password)
FireboardAPI(email, password) == [email |-> email, password |-> password]

EmptyMap == [e \in {} |-> 0]
Without(f, e) == [x \in (DOMAIN f) \ {e} |-> f[x]]

\* __init__.py 28-29: hass.data[DOMAIN] = {}; hass.data[DOMAIN][entry_id] = client
RegistryAfterSetup(registry, entry_id, client) == Some((entry_id :> client) @@ EmptyMap)

InitRegistry ==
    /\ hass_data = None
    /\ loaded = {}
    /\ pending = {}
    /\ clientOf = EmptyMap
    /\ regEvent = [op |-> "none", entry |-> 0, error |-> "none"]

\* __init__.async_setup_entry
init_async_setup_entry(e) ==
    /\ e \notin loaded
    /\ hass_data' = RegistryAfterSetup(hass_data, e,
                        FireboardAPI(EntryData(e).email, EntryData(e).password))
    /\ pending' = pending \cup {e}
    /\ loaded' = loaded \cup {e}
    /\ regEvent' = [op |-> "setup", entry |-> e, error |-> "none"]
    /\ UNCHANGED <<clientOf, projVars, coordVars>>

\* the scheduled sensor platform setup runs: sensor.py 53
sensor_async_setup_entry(e) ==
    /\ e \in pending
    /\ pending' = pending \ {e}
    /\ IF e \in DOMAIN hass_data[1]
       THEN /\ clientOf' = (e :> hass_data[1][e]) @@ clientOf
            /\ regEvent' = [op |-> "platform", entry |-> e, error |-> "none"]
       ELSE /\ regEvent' = [op |-> "platform", entry |-> e, error |-> "KeyError"]
            /\ UNCHANGED clientOf
    /\ UNCHANGED <<hass_data, loaded, projVars, coordVars>>

\* __init__.async_unload_entry; unload_ok is the result of async_unload_platforms
async_unload_entry(e, unload_ok) ==
    /\ e \in loaded
    /\ IF ~unload_ok
       THEN /\ regEvent' = [op |-> "unload", entry |-> e, error |-> "not unloaded"]
            /\ UNCHANGED <<hass_data, loaded, pending, clientOf>>
       ELSE IF e \in DOMAIN hass_data[1]
       THEN /\ hass_data' = Some(Without(hass_data[1], e))
            /\ loaded' = loaded \ {e}
            /\ pending' = pending \ {e}
            /\ clientOf' = Without(clientOf, e)
            /\ regEvent' = [op |-> "unload", entry |-> e, error |-> "none"]
       ELSE /\ regEvent' = [op |-> "unload", entry |-> e, error |-> "KeyError"]
            /\ UNCHANGED <<hass_data, loaded, pending, clientOf>>
    /\ UNCHANGED <<projVars, coordVars>>

NextRegistry ==
    \/ \E e \in Entries : init_async_setup_entry(e)
    \/ \E e \in Entries : sensor_async_setup_entry(e)
    \/ \E e \in Entries, unload_ok \in BOOLEAN : async_unload_entry(e, unload_ok)

----------------------------------------------------------------------------
(* Specifications *)

Init == InitProject /\ InitCoord /\ InitRegistry

\* one coordinator with its listeners and timer
Spec == Init /\ [][NextCoord]_vars

\* one coordinator with the entity views read by the host
SpecViews == Init /\ [][NextViews]_vars

\* the projection of API responses
SpecProject == Init /\ [][NextProject]_vars

\* the registry of API clients of several config entries
SpecRegistry == Init /\ [][NextRegistry]_vars

----------------------------------------------------------------------------
(* Properties of the projection (SpecProject) *)

\* every (device, channel) position of a response; channel position 0 stands
\* for the battery record of the device
Emissions(device_list_data) ==
    UNION {{<<i, j>> : j \in 0..Len(device_list_data[i].channels)} :
              i \in 1..Len(device_list_data)}

TwoDigit(n) == IF n < 10 THEN <<"0", DigitChar(n)>> ELSE Digits(n)

KeyOfEmission(device_list_data, em) ==
    LET d == device_list_data[em[1]]
    IN  IF em[2] = 0 THEN d.hardware_id \o <<"_", "b", "a", "t", "t", "e", "r", "y">>
        ELSE d.hardware_id \o <<"_">> \o TwoDigit(d.channels[em[2]].channel)

LaterEmission(a, b) == a[1] > b[1] \/ (a[1] = b[1] /\ a[2] > b[2])

\* the last position in iteration order that produces the key
WinnerOf(device_list_data, key) ==
    CHOOSE em \in Emissions(device_list_data) :
        /\ KeyOfEmission(device_list_data, em) = key
        /\ \A o \in Emissions(device_list_data) :
              KeyOfEmission(device_list_data, o) = key => (o = em \/ LaterEmission(em, o))

FirstReading(latest_temps, channel) ==
    IF \E j \in 1..Len(latest_temps) : latest_temps[j].channel = channel
    THEN LET j == CHOOSE j \in 1..Len(latest_temps) :
                     /\ latest_temps[j].channel = channel
                     /\ \A l \in 1..(j - 1) : latest_temps[l].channel # channel
         IN  Some(latest_temps[j].temp)
    ELSE None

RecordMatches(device_list_data, key, rec) ==
    LET em == WinnerOf(device_list_data, key)
        d == device_list_data[em[1]]
    IN  /\ rec.unique_id = key
        /\ rec.parent_device.hardware_id = d.hardware_id
        /\ rec.parent_device.battery = d.last_battery_reading * 100
        /\ rec.parent_device.unit_of_measurement =
              (IF d.degreetype = 2 THEN TEMP_FAHRENHEIT ELSE TEMP_CELSIUS)
        /\ IF em[2] = 0
           THEN DOMAIN rec = {"parent_device", "unique_id"}
           ELSE /\ "state" \in DOMAIN rec
                /\ rec.channel = d.channels[em[2]].channel
                /\ rec.state = FirstReading(d.latest_temps, rec.channel)

\* C8: the snapshot of a response holds exactly one record per produced key:
\* "<hw>_battery" per device (battery fraction x 100) and "<hw>_<channel:02d>"
\* per channel (first reading of that channel or None; Fahrenheit iff
\* degreetype = 2, else Celsius); for a key produced more than once the last
\* producer in iteration order is the record kept.
C8_ProjectionExact ==
    out # None =>
        LET entities == out[1]
        IN  /\ \A i, j \in 1..Len(entities) : entities[i].k = entities[j].k => i = j
            /\ DictKeys(entities) =
                  {KeyOfEmission(raw, em) : em \in Emissions(raw)}
            /\ \A i \in 1..Len(entities) :
                  RecordMatches(raw, entities[i].k, entities[i].v)

\* a response with a key produced twice, a channel without reading, a channel
\* with two readings, and a Fahrenheit and a Celsius device have been projected
C8_Witness_Collision ==
    /\ out # None
    /\ \E a, b \in Emissions(raw) :
          /\ a # b
          /\ a[1] # b[1]
          /\ KeyOfEmission(raw, a) = KeyOfEmission(raw, b)
          /\ raw[a[1]].degreetype = 2
          /\ raw[b[1]].degreetype # 2
          /\ raw[a[1]].last_battery_reading # raw[b[1]].last_battery_reading

\* C4: two successive projections of responses with the same devices and
\* channels, differing only in their latest_temps, have the same key set.
C4_KeyStability ==
    (out # None /\ keysPrev # None) => DictKeys(out[1]) = keysPrev[1]

\* a second projection in which a channel lost its reading
C4_Witness ==
    /\ out # None
    /\ keysPrev # None
    /\ \E i \in 1..Len(out[1]) :
          /\ "state" \in DOMAIN out[1][i].v
          /\ out[1][i].v.state = None
          /\ out[1][i].k \in keysPrev[1]

----------------------------------------------------------------------------
(* Properties of the coordinator (Spec) *)

\* the timer would start a refresh now
TimerDue ==
    /\ timerOn
    /\ subscribers # << >>
    /\ setupResult = "done"
    /\ coordState \in {"Ready", "Refreshing"}

\* C1: a refresh whose fetch fails with FireboardApiAuthError raises
\* ConfigEntryAuthFailed, leaves the published snapshot as it was, moves the
\* coordinator to FailedAuth and stops the timer; while in FailedAuth no fetch
\* is issued and the snapshot stays, until re-authentication.
C1_AuthFailureFreezes ==
    /\ [](event.op = "refresh" /\ event.api = "FireboardApiAuthError" =>
            /\ event.raised = "ConfigEntryAuthFailed"
            /\ event.kept
            /\ coordState = "FailedAuth"
            /\ ~timerOn
            /\ ~TimerDue
            /\ outstanding = 0)
    /\ [][coordState = "FailedAuth" =>
            \/ event'.op = "reauth"
            \/ /\ coordState' = "FailedAuth"
               /\ outstanding' = outstanding
               /\ data' = data
               /\ ~timerOn']_vars

\* a coordinator with a snapshot and listeners has gone to FailedAuth
C1_Witness ==
    /\ event.op = "refresh"
    /\ event.api = "FireboardApiAuthError"
    /\ coordState = "FailedAuth"
    /\ setupResult = "done"
    /\ data # None
    /\ data[1] # << >>
    /\ subscribers # << >>

\* the refresh that just ended failed with a transient error of the client
TransientFailure ==
    event.op = "refresh" /\ event.api \in {"FireboardApiError", "TimeoutError"}

\* C2 as claimed: a refresh whose fetch fails with FireboardApiError or runs
\* into the 10 s timeout is surfaced as UpdateFailed, leaves the published
\* snapshot as it was and returns the coordinator to Ready, and the timer
\* keeps firing, so that a coordinator that had been set up is polled again.
C2_TransientAsUpdateFailed ==
    TransientFailure =>
        /\ event.raised = "UpdateFailed"
        /\ event.kept
        /\ coordState = "Ready"
        /\ timerOn
        /\ setupResult = "done" => TimerDue

\* C2 as amended: FireboardApiError is raised as UpdateFailed, the timeout
\* leaves async_update_data uncaught as TimeoutError; either way the refresh
\* counts as a transient failure, the published snapshot stays as it was, the
\* coordinator returns to Ready and the timer stays armed; the timer starts
\* the next refresh exactly if the coordinator has at least one listener.
C2_TransientKeepsSnapshot ==
    TransientFailure =>
        /\ event.api = "FireboardApiError" => event.raised = "UpdateFailed"
        /\ event.api = "TimeoutError" => event.raised = "TimeoutError"
        /\ event.outcome = "transient"
        /\ event.kept
        /\ coordState = "Ready"
        /\ timerOn
        /\ setupResult = "done" => (TimerDue <=> subscribers # << >>)

\* a coordinator with a snapshot and listeners whose fetch timed out: the
\* timeout reached the coordinator as TimeoutError and the timer is due again
C2_Witness ==
    /\ event.op = "refresh"
    /\ event.api = "TimeoutError"
    /\ event.raised = "TimeoutError"
    /\ setupResult = "done"
    /\ data # None
    /\ data[1] # << >>
    /\ TimerDue

\* C3: at most one fetch is outstanding; a request made while a refresh is in
\* flight issues no fetch and joins the waiters of that refresh, and every
\* waiter is handed the outcome of the refresh it waited for.
C3_AtMostOneFetch ==
    /\ outstanding <= 1
    /\ (coordState = "Refreshing") <=> (outstanding = 1)
    /\ (event.op = "request" /\ event.joined) =>
          (~event.fetchIssued /\ event.caller \in waiters)
    /\ event.op = "refresh" =>
          /\ waiters = {}
          /\ DOMAIN event.delivered = event.waiting
          /\ \A w \in event.waiting : event.delivered[w] = event.outcome

\* a refresh that two callers waited for has completed
C3_Witness ==
    /\ event.op = "refresh"
    /\ Cardinality(event.waiting) >= 2

\* C6: a successful refresh calls every registered listener exactly once, in
\* registration order, with the new snapshot already published; a failed
\* refresh and a mere request call no listener.
C6_NotifyOnSuccessOnly ==
    /\ event.op = "refresh" =>
          IF event.outcome = "ok"
          THEN /\ event.notified = subscribers
               /\ \A i, j \in 1..Len(event.notified) :
                     event.notified[i] = event.notified[j] => i = j
               /\ event.saw = data
               /\ data # None
          ELSE event.notified = << >>
    /\ event.op = "request" => event.notified = << >>

\* two listeners were notified by a successful refresh
C6_Witness ==
    /\ event.op = "refresh"
    /\ event.outcome = "ok"
    /\ Len(event.notified) >= 2

\* C7: no entity view exists before the first refresh has succeeded; a failed
\* first refresh ends setup as failed with no view and no snapshot; a
\* successful one ends it with exactly one view per key of the snapshot, in
\* the snapshot's order.
C7_FirstRefreshGatesSetup ==
    /\ setupResult \in {"none", "first_refresh", "failed"} =>
          (views = << >> /\ subscribers = << >>)
    /\ setupResult \in {"none", "first_refresh"} => data = None
    /\ (event.op = "refresh" /\ "start" \in event.waiting) =>
          IF event.outcome = "ok"
          THEN /\ setupResult = "done"
               /\ Len(views) = Len(data[1])
               /\ \A i \in 1..Len(views) : views[i].unique_id = data[1][i].k
          ELSE /\ setupResult = "failed"
               /\ event.delivered["start"] # "ok"
               /\ data = None
               /\ views = << >>

\* the first refresh has failed and setup has stopped
C7_Witness ==
    /\ event.op = "refresh"
    /\ "start" \in event.waiting
    /\ event.outcome # "ok"
    /\ setupResult = "failed"

----------------------------------------------------------------------------
(* Properties of the entity views (SpecViews) *)

ViewKeyPresent(view) ==
    data # None /\ \E i \in 1..Len(data[1]) : data[1][i].k = view.unique_id

\* the read result agrees with the record rec of the current snapshot
ReadAgrees(view, prop, rec, result) ==
    /\ result.status = "ok"
    /\ CASE prop = "name" ->
              /\ SubSeq(result.value, 1, Len(rec.parent_device.name)) =
                    rec.parent_device.name
              /\ view.cls = "FireboardSensor" =>
                    result.value = rec.parent_device.name \o <<" ">> \o rec.channel_label
         [] prop = "unit_of_measurement" ->
              IF view.cls = "FireboardBattery" THEN result.value = "%"
              ELSE result.value = rec.parent_device.unit_of_measurement
         [] prop = "state" ->
              IF view.cls = "FireboardBattery"
              THEN result.value = rec.parent_device.battery
              ELSE result.value = rec.state
         [] prop = "device_info" ->
              /\ result.value.identifiers = {<<"fireboard", rec.parent_device.hardware_id>>}
              /\ result.value.model = rec.parent_device.model
              /\ result.value.sw_version = rec.parent_device.sw_version

ReadOfPresentKey ==
    (event.op = "read" /\ ViewKeyPresent(views[event.view])) =>
        \E i \in 1..Len(data[1]) :
            /\ data[1][i].k = views[event.view].unique_id
            /\ ReadAgrees(views[event.view], event.prop, data[1][i].v, event.result)

\* C9 as claimed: every read of name, unit, value or device identity is taken
\* from the record under the view's key in the current snapshot, and fails
\* with a lookup failure when the key is absent.
C9_EveryReadLooksUp ==
    /\ ReadOfPresentKey
    /\ (event.op = "read" /\ ~ViewKeyPresent(views[event.view])) =>
          event.result.status = "KeyError"

\* C9 as amended: as above, except that the unit of a battery view is the
\* constant "%" and is returned without a lookup, also when the key is
\* absent; a read changes neither the snapshot nor the coordinator state.
C9_ReadsCurrentSnapshot ==
    /\ [](/\ ReadOfPresentKey
          /\ (event.op = "read" /\ ~ViewKeyPresent(views[event.view])) =>
                IF views[event.view].cls = "FireboardBattery"
                   /\ event.prop = "unit_of_measurement"
                THEN event.result = Ok("%")
                ELSE event.result.status = "KeyError")
    /\ [][event'.op = "read" =>
             (data' = data /\ coordState' = coordState /\ views' = views)]_vars

\* a view whose key has left the snapshot was read and the read failed
C9_Witness ==
    /\ event.op = "read"
    /\ ~ViewKeyPresent(views[event.view])
    /\ event.result.status = "KeyError"
    /\ data[1] # << >>

\* C10 as claimed: right after setup a view is a FireboardBattery exactly if
\* the record under its key is a battery record, and a FireboardSensor
\* exactly if it is a channel record.
C10_ViewKindMatchesRecord ==
    (event.op = "refresh" /\ "start" \in event.waiting /\ event.outcome = "ok") =>
        \A i \in 1..Len(views) :
            LET rec == data[1][i].v
            IN  (views[i].cls = "FireboardBattery") <=> ("state" \notin DOMAIN rec)

----------------------------------------------------------------------------
(* Properties of the registry (SpecRegistry) *)

\* C5 as claimed: the registry holds exactly the clients of the entries set
\* up and not yet unloaded, each built from its own entry, and no setup or
\* unload ends in a lookup error.
C5_EntriesIndependent ==
    /\ hass_data = None => loaded = {}
    /\ hass_data # None =>
          /\ DOMAIN hass_data[1] = loaded
          /\ \A e \in loaded :
                hass_data[1][e] = FireboardAPI(EntryData(e).email, EntryData(e).password)
    /\ regEvent.error # "KeyError"
====
